---- MODULE Spec2Model ----
(***************************************************************************)
(* A model of the fitnity-ai Convex backend:                               *)
(*   src/convex/plans.ts  the plan store (createPlan, getUserPlans)        *)
(*   src/convex/http.ts   the /clerk-webhook and /vapi/generate-program    *)
(*                        handlers and the shape validators they use       *)
(*                                                                         *)
(* Specifications:                                                         *)
(*   Spec         createPlan run as concurrent database transactions       *)
(*   SpecQuery    createPlan calls in sequence, and getUserPlans           *)
(*   SpecPayload  unwrapNode and assertPayloadShape on decoded JSON values *)
(*   SpecWorkout  assertWorkoutShape on decoded JSON values                *)
(*   SpecNormal   validateWorkoutPlan on decoded JSON values               *)
(*   SpecHook     the /clerk-webhook handler                               *)
(*   SpecGen      the /vapi/generate-program handler and the plans table   *)
(***************************************************************************)
EXTENDS Integers, Sequences, FiniteSets, TLC

VARIABLES
    plans,   \* the "plans" table, in insertion (_creationTime) order
    txn,     \* per mutation call in flight: its position, arguments, snapshot
    listed,  \* the last getUserPlans call: its argument and what it returned
    pIn,     \* a decoded JSON value given to the request validator
    pOut,    \* what the validator made of pIn: alone, as a body, as {node: pIn}
    wIn,     \* a decoded JSON value given to the workout validator
    wOut,    \* what assertWorkoutShape returned for wIn
    wPlan,   \* what validateWorkoutPlan returned for wIn
    hook,    \* one /clerk-webhook request: the request, the handler's position,
             \* the database operations it invoked, its response
    gen      \* one /vapi/generate-program request: the body, the handler's
             \* position, what the AI calls returned, its response

vars == <<plans, txn, listed, pIn, pOut, wIn, wOut, wPlan, hook, gen>>

\* what the actions of one part leave alone
exceptStore == <<pIn, pOut, wIn, wOut, wPlan, hook, gen>>
exceptPayload == <<plans, txn, listed, wIn, wOut, wPlan, hook, gen>>
exceptWorkout == <<plans, txn, listed, pIn, pOut, hook, gen>>
exceptHook == <<plans, txn, listed, pIn, pOut, wIn, wOut, wPlan, gen>>
exceptGen == <<txn, listed, pIn, pOut, wIn, wOut, wPlan, hook>>

(***************************************************************************)
(* Bounds and input sets                                                   *)
(***************************************************************************)
MaxPlans == 3

Users == {"u1", "u2"}
PlanNames == {"n1", "n2"}
Txns == {1, 2}

\* The arguments of a createPlan call. workoutPlan and dietPlan are stored
\* as given and never read by the store; name stands for all three.
PlanArgs == [userId : Users, name : PlanNames, isActive : BOOLEAN]

(***************************************************************************)
(* src/convex/plans.ts: createPlan                                         *)
(***************************************************************************)
\* (variant for C2: the isActive filter reads the wrong value)
ActivePlansInverted(db, userId) ==
    {i \in 1..Len(db) : db[i].userId = userId /\ db[i].isActive = FALSE}

\* (variant for C12: the by_user_id index range is left out)
ActivePlansAnyUser(db, userId) ==
    {i \in 1..Len(db) : db[i].isActive = TRUE}

\* ctx.db.query("plans").withIndex("by_user_id", eq userId)
\*       .filter(isActive = true).collect(): the _ids found
ActivePlans(db, userId) ==
    {i \in 1..Len(db) : db[i].userId = userId /\ db[i].isActive = TRUE}

\* (variant for C1: the patch loop is skipped)
DeactivateNone(db, ids) == db

\* for (const plans of activePlans) ctx.db.patch(plans._id, {isActive: false})
Deactivate(db, ids) ==
    [i \in 1..Len(db) |->
        IF i \in ids THEN [db[i] EXCEPT !.isActive = FALSE] ELSE db[i]]

\* ctx.db.insert("plans", args): the new document gets the next _id
InsertPlan(db, args) ==
    Append(db, [_id |-> Len(db) + 1, userId |-> args.userId,
                name |-> args.name, isActive |-> args.isActive])

\* The writes of one run of the handler that read `snap`, applied to `db`
\* (db = snap when the call runs alone).
CreatePlanWrites(db, snap, args) ==
    InsertPlan(Deactivate(db, ActivePlans(snap, args.userId)), args)

\* The handler run alone, as one transaction: new table and returned _id.
CreatePlanHandler(db, args) ==
    [db |-> CreatePlanWrites(db, db, args), id |-> Len(db) + 1]

(***************************************************************************)
(* The mutation as a transaction of the host database: the handler reads   *)
(* a snapshot, its writes are applied at commit, and a commit whose read   *)
(* set (the by_user_id range of its userId) was written since the snapshot *)
(* is refused and the handler run again.                                   *)
(***************************************************************************)
UserRange(db, userId) == {db[i] : i \in {j \in 1..Len(db) : db[j].userId = userId}}

Conflict(t) ==
    UserRange(plans, txn[t].args.userId) # UserRange(txn[t].snap, txn[t].args.userId)

Idle == [pc |-> "idle", args |-> [userId |-> "u1", name |-> "n1", isActive |-> FALSE],
         snap |-> <<>>, ret |-> 0]

Begin(t, args) ==
    /\ txn[t].pc = "idle"
    /\ Len(plans) + Cardinality({s \in Txns : txn[s].pc = "running"}) < MaxPlans
    /\ txn' = [txn EXCEPT ![t] = [pc |-> "running", args |-> args,
                                  snap |-> plans, ret |-> 0]]
    /\ UNCHANGED <<plans, listed, exceptStore>>

Commit(t) ==
    /\ txn[t].pc = "running"
    /\ ~Conflict(t)
    /\ plans' = CreatePlanWrites(plans, txn[t].snap, txn[t].args)
    /\ txn' = [txn EXCEPT ![t] = [Idle EXCEPT !.args = txn[t].args,
                                              !.ret = Len(plans) + 1]]
    /\ UNCHANGED <<listed, exceptStore>>

Retry(t) ==
    /\ txn[t].pc = "running"
    /\ Conflict(t)
    /\ txn' = [txn EXCEPT ![t].snap = plans]
    /\ UNCHANGED <<plans, listed, exceptStore>>

(***************************************************************************)
(* src/convex/plans.ts: getUserPlans                                       *)
(***************************************************************************)
RECURSIVE Reverse(_)
Reverse(s) == IF s = <<>> THEN <<>> ELSE Append(Reverse(Tail(s)), Head(s))

\* withIndex("by_user_id", eq userId): the user's documents in index order,
\* which within one userId is _creationTime order
ByUserId(db, userId) == SelectSeq(db, LAMBDA p : p.userId = userId)

\* (variant for C8: .order("desc") is left out)
GetUserPlansAscending(db, userId) == ByUserId(db, userId)

\* .order("desc").collect()
GetUserPlansHandler(db, userId) == Reverse(ByUserId(db, userId))

NotListed == [userId |-> "none", result |-> <<>>]

\* createPlan called and run to its end with no other call in between
CreatePlan(args) ==
    /\ Len(plans) < MaxPlans
    /\ plans' = CreatePlanHandler(plans, args).db
    /\ txn' = [txn EXCEPT ![1] = [Idle EXCEPT !.args = args,
                                              !.ret = CreatePlanHandler(plans, args).id]]
    /\ listed' = NotListed
    /\ UNCHANGED exceptStore

GetUserPlans(userId) ==
    /\ listed' = [userId |-> userId, result |-> GetUserPlansHandler(plans, userId)]
    /\ UNCHANGED <<plans, txn, exceptStore>>


(***************************************************************************)
(* Decoded JSON / JavaScript values, as src/convex/http.ts inspects them   *)
(***************************************************************************)
Undefined == [kind |-> "undefined"]
Null == [kind |-> "null"]
NaN == [kind |-> "NaN"]
\* a string; Str("Mon") stands for text that parseInt reads no number from
Str(s) == [kind |-> "string", str |-> s]
\* a string whose characters matter, as the sequence of them
Chars(cs) == [kind |-> "string", chars |-> cs]
Num(n) == [kind |-> "number", num |-> n]
Arr(s) == [kind |-> "array", elems |-> s]
Obj(f) == [kind |-> "object", fields |-> f]

\* typeof v
TypeOf(v) ==
    CASE v.kind = "undefined" -> "undefined"
      [] v.kind = "string" -> "string"
      [] v.kind \in {"number", "NaN"} -> "number"
      [] v.kind \in {"null", "array", "object"} -> "object"

\* Array.isArray(v), Number.isNaN(v)
IsArray(v) == v.kind = "array"
IsNaN(v) == v.kind = "NaN"

\* "f" in v, for a non-null object or array v
HasField(v, f) == v.kind = "object" /\ f \in DOMAIN v.fields

\* v.f, for a non-null object or array v
Get(v, f) == IF HasField(v, f) THEN v.fields[f] ELSE Undefined

\* arr.some((d) => typeof d !== "string")
SomeNotString(arr) == \E k \in 1..Len(arr.elems) : TypeOf(arr.elems[k]) # "string"

\* v used as a condition
Truthy(v) ==
    CASE v.kind \in {"undefined", "null", "NaN"} -> FALSE
      [] v.kind = "string" -> IF "chars" \in DOMAIN v THEN v.chars # <<>> ELSE v.str # ""
      [] v.kind = "number" -> v.num # 0
      [] v.kind \in {"array", "object"} -> TRUE

\* v || null
OrNull(v) == IF Truthy(v) THEN v ELSE Null

(***************************************************************************)
(* src/convex/http.ts: unwrapNode                                          *)
(***************************************************************************)
unwrapNode(obj) ==
    IF obj.kind # "null" /\ TypeOf(obj) = "object" /\ HasField(obj, "node")
       /\ Get(obj, "node").kind # "null" /\ TypeOf(Get(obj, "node")) = "object"
    THEN Get(obj, "node")
    ELSE OrNull(obj)

(***************************************************************************)
(* src/convex/http.ts: assertPayloadShape                                  *)
(***************************************************************************)
\* "Missing or invalid '<field>' (expected <type>)."
FieldError(f, ty) ==
    [error |-> <<"Missing or invalid '", f, "' (expected ", ty, ").">>]

NotStringList(v) == ~IsArray(v) \/ SomeNotString(v)

PayloadOf(raw) ==
    [payload |->
        [user_id |-> Get(raw, "user_id"),
         age |-> Get(raw, "age"),
         height |-> Get(raw, "height"),
         weight |-> Get(raw, "weight"),
         injuries |-> Get(raw, "injuries"),
         workout_days |-> Get(raw, "workout_days"),
         fitness_goal |-> Get(raw, "fitness_goal"),
         fitness_level |-> Get(raw, "fitness_level"),
         dietary_restrictions |-> Get(raw, "dietary_restrictions")]]

\* (variant for C9: the age check comes after the height check)
assertPayloadShapeSwapped(obj) ==
    IF obj.kind = "null" \/ TypeOf(obj) # "object"
    THEN [error |-> <<"Payload is not an object.">>]
    ELSE IF TypeOf(Get(obj, "user_id")) # "string" THEN FieldError("user_id", "string")
    ELSE IF TypeOf(Get(obj, "height")) # "string" THEN FieldError("height", "string")
    ELSE IF TypeOf(Get(obj, "age")) # "number" THEN FieldError("age", "number")
    ELSE IF TypeOf(Get(obj, "weight")) # "string" THEN FieldError("weight", "string")
    ELSE IF TypeOf(Get(obj, "injuries")) # "string" THEN FieldError("injuries", "string")
    ELSE IF NotStringList(Get(obj, "workout_days"))
         THEN FieldError("workout_days", "string[]")
    ELSE IF TypeOf(Get(obj, "fitness_goal")) # "string"
         THEN FieldError("fitness_goal", "string")
    ELSE IF TypeOf(Get(obj, "fitness_level")) # "string"
         THEN FieldError("fitness_level", "string")
    ELSE IF NotStringList(Get(obj, "dietary_restrictions"))
         THEN FieldError("dietary_restrictions", "string[]")
    ELSE PayloadOf(obj)

assertPayloadShape(obj) ==
    IF obj.kind = "null" \/ TypeOf(obj) # "object"
    THEN [error |-> <<"Payload is not an object.">>]
    ELSE IF TypeOf(Get(obj, "user_id")) # "string" THEN FieldError("user_id", "string")
    ELSE IF TypeOf(Get(obj, "age")) # "number" THEN FieldError("age", "number")
    ELSE IF TypeOf(Get(obj, "height")) # "string" THEN FieldError("height", "string")
    ELSE IF TypeOf(Get(obj, "weight")) # "string" THEN FieldError("weight", "string")
    ELSE IF TypeOf(Get(obj, "injuries")) # "string" THEN FieldError("injuries", "string")
    ELSE IF NotStringList(Get(obj, "workout_days"))
         THEN FieldError("workout_days", "string[]")
    ELSE IF TypeOf(Get(obj, "fitness_goal")) # "string"
         THEN FieldError("fitness_goal", "string")
    ELSE IF TypeOf(Get(obj, "fitness_level")) # "string"
         THEN FieldError("fitness_level", "string")
    ELSE IF NotStringList(Get(obj, "dietary_restrictions"))
         THEN FieldError("dietary_restrictions", "string[]")
    ELSE PayloadOf(obj)

\* The first statements of the generation handler: the body unwrapped, then
\* validated.
ValidateBody(body) == assertPayloadShape(OrNull(unwrapNode(body)))

(***************************************************************************)
(* Request bodies the validator is tried on: a well-typed payload with up  *)
(* to two fields missing or ill-typed, with or without one more field, and *)
(* values that are no payload object at all.                               *)
(***************************************************************************)
PayloadFields ==
    {"user_id", "age", "height", "weight", "injuries", "workout_days",
     "fitness_goal", "fitness_level", "dietary_restrictions"}

GoodPayload(u) ==
    [user_id |-> Str(u), age |-> Num(30), height |-> Str("tall"),
     weight |-> Str("light"), injuries |-> Str("none"),
     workout_days |-> Arr(<<Str("Mon"), Str("Wed")>>),
     fitness_goal |-> Str("n1"), fitness_level |-> Str("beginner"),
     dietary_restrictions |-> Arr(<<>>)]

BadValues(f) ==
    IF f = "age" THEN {Undefined, Null, Chars(<<"3", "0">>)}
    ELSE IF f \in {"workout_days", "dietary_restrictions"}
         THEN {Undefined, Str("Mon"), Arr(<<Str("Mon"), Num(1)>>)}
    ELSE {Undefined, Null, Num(1)}

\* the fields `fs` with field f set to v (left out when v is undefined)
WithField(fs, f, v) ==
    IF v = Undefined
    THEN [g \in DOMAIN fs \ {f} |-> fs[g]]
    ELSE [g \in DOMAIN fs \cup {f} |-> IF g = f THEN v ELSE fs[g]]

ExtraFields ==
    {<<"extra", Undefined>>, <<"extra", Str("x")>>,
     <<"node", Null>>, <<"node", Str("x")>>, <<"node", Arr(<<>>)>>,
     <<"node", Obj(<<>>)>>, <<"node", Obj(GoodPayload("u2"))>>}

\* one field and a value for it, well-typed or not
FieldChoices ==
    UNION {{<<f, v>> : v \in BadValues(f) \cup {GoodPayload("u1")[f]}} : f \in PayloadFields}

PayloadObjects ==
    {Obj(WithField(WithField(WithField(GoodPayload("u1"), c1[1], c1[2]),
                             c2[1], c2[2]), e[1], e[2])) :
        c1 \in FieldChoices, c2 \in FieldChoices, e \in ExtraFields}

PayloadInputs ==
    PayloadObjects \cup {Undefined, Null, Str("x"), Str(""), Num(0), Num(1), Arr(<<>>)}

NotRun == [pending |-> TRUE]

RestPayload ==
    /\ pIn = Null
    /\ pOut = [direct |-> NotRun, plain |-> NotRun, wrapped |-> NotRun]

StartPayload ==
    /\ pIn \in PayloadInputs
    /\ pOut = [direct |-> NotRun, plain |-> NotRun, wrapped |-> NotRun]

\* assertPayloadShape(pIn)
AssertPayload ==
    /\ pOut.direct = NotRun
    /\ pOut' = [pOut EXCEPT !.direct = assertPayloadShape(pIn)]
    /\ UNCHANGED <<pIn, exceptPayload>>

\* the handler's validation of the request body pIn
ValidatePlain ==
    /\ pOut.plain = NotRun
    /\ pOut' = [pOut EXCEPT !.plain = ValidateBody(pIn)]
    /\ UNCHANGED <<pIn, exceptPayload>>

\* the handler's validation of the request body {node: pIn}
ValidateWrapped ==
    /\ pOut.wrapped = NotRun
    /\ pIn # Undefined
    /\ pOut' = [pOut EXCEPT !.wrapped = ValidateBody(Obj([node |-> pIn]))]
    /\ UNCHANGED <<pIn, exceptPayload>>

(***************************************************************************)
(* src/convex/http.ts: assertWorkoutShape                                  *)
(* An error string is kept as the sequence of its pieces; the quotes       *)
(* around the path are written ' here.                                     *)
(***************************************************************************)
WorkoutError(path, msg) == [error |-> <<"Workout plan '">> \o path \o <<msg>>]

\* exercises[${i}]
ExercisePath(i) == <<"exercises[", ToString(i), "]">>

\* (variant for C10: the routine index is written with i instead of j)
RoutinePathWrongIndex(i, j) == ExercisePath(i) \o <<".routines[", ToString(i), "]">>

\* exercises[${i}].routines[${j}]
RoutinePath(i, j) == ExercisePath(i) \o <<".routines[", ToString(j), "]">>

NotNumber(v) == TypeOf(v) # "number" \/ IsNaN(v)

NoError == [error |-> <<>>]

\* for (let j = 0; j < ex.routines.length; j++) { ... }, from index j on
RECURSIVE RoutineLoop(_, _, _)
RoutineLoop(routines, i, j) ==
    IF ~(j < Len(routines.elems)) THEN NoError
    ELSE LET r == routines.elems[j + 1]
         IN  IF r.kind = "null" \/ TypeOf(r) # "object"
             THEN WorkoutError(RoutinePath(i, j), "' is not an object.")
             ELSE IF TypeOf(Get(r, "name")) # "string"
             THEN WorkoutError(RoutinePath(i, j) \o <<".name">>, "' must be string.")
             ELSE IF NotNumber(Get(r, "sets"))
             THEN WorkoutError(RoutinePath(i, j) \o <<".sets">>, "' must be number.")
             ELSE IF NotNumber(Get(r, "reps"))
             THEN WorkoutError(RoutinePath(i, j) \o <<".reps">>, "' must be number.")
             ELSE RoutineLoop(routines, i, j + 1)

\* for (let i = 0; i < raw.exercises.length; i++) { ... }, from index i on
RECURSIVE ExerciseLoop(_, _)
ExerciseLoop(exercises, i) ==
    IF ~(i < Len(exercises.elems)) THEN NoError
    ELSE LET ex == exercises.elems[i + 1]
         IN  IF ex.kind = "null" \/ TypeOf(ex) # "object"
             THEN WorkoutError(ExercisePath(i), "' is not an object.")
             ELSE IF TypeOf(Get(ex, "day")) # "string"
             THEN WorkoutError(ExercisePath(i) \o <<".day">>, "' must be string.")
             ELSE IF ~IsArray(Get(ex, "routines"))
             THEN WorkoutError(ExercisePath(i) \o <<".routines">>, "' must be an array.")
             ELSE IF RoutineLoop(Get(ex, "routines"), i, 0) # NoError
             THEN RoutineLoop(Get(ex, "routines"), i, 0)
             ELSE ExerciseLoop(exercises, i + 1)

assertWorkoutShape(obj) ==
    IF obj.kind = "null" \/ TypeOf(obj) # "object"
    THEN [error |-> <<"Workout plan is not an object.">>]
    ELSE IF NotStringList(Get(obj, "schedule"))
    THEN WorkoutError(<<"schedule">>, "' must be string[].")
    ELSE IF ~IsArray(Get(obj, "exercises"))
    THEN WorkoutError(<<"exercises">>, "' must be an array.")
    ELSE IF ExerciseLoop(Get(obj, "exercises"), 0) # NoError
    THEN ExerciseLoop(Get(obj, "exercises"), 0)
    ELSE [value |-> obj]

(***************************************************************************)
(* src/convex/http.ts: assertDietShape                                     *)
(***************************************************************************)
DietError(path, msg) == [error |-> <<"Diet plan '">> \o path \o <<msg>>]

\* for (let i = 0; i < raw.meals.length; i++) { ... }, from index i on
RECURSIVE MealLoop(_, _)
MealLoop(meals, i) ==
    IF ~(i < Len(meals.elems)) THEN NoError
    ELSE LET meal == meals.elems[i + 1]
         IN  IF meal.kind = "null" \/ TypeOf(meal) # "object"
             THEN DietError(<<"meals[", ToString(i), "]">>, "' is not an object.")
             ELSE IF TypeOf(Get(meal, "name")) # "string"
             THEN DietError(<<"meals[", ToString(i), "]", ".name">>, "' must be string.")
             ELSE IF NotStringList(Get(meal, "foods"))
             THEN DietError(<<"meals[", ToString(i), "]", ".foods">>, "' must be string[].")
             ELSE MealLoop(meals, i + 1)

\* (variant for C3: the dailyCalories check is left out)
assertDietShapeNoCalories(obj) ==
    IF obj.kind = "null" \/ TypeOf(obj) # "object"
    THEN [error |-> <<"Diet plan is not an object.">>]
    ELSE IF ~IsArray(Get(obj, "meals"))
    THEN DietError(<<"meals">>, "' must be an array.")
    ELSE IF MealLoop(Get(obj, "meals"), 0) # NoError
    THEN MealLoop(Get(obj, "meals"), 0)
    ELSE [value |-> obj]

assertDietShape(obj) ==
    IF obj.kind = "null" \/ TypeOf(obj) # "object"
    THEN [error |-> <<"Diet plan is not an object.">>]
    ELSE IF NotNumber(Get(obj, "dailyCalories"))
    THEN DietError(<<"dailyCalories">>, "' must be a number.")
    ELSE IF ~IsArray(Get(obj, "meals"))
    THEN DietError(<<"meals">>, "' must be an array.")
    ELSE IF MealLoop(Get(obj, "meals"), 0) # NoError
    THEN MealLoop(Get(obj, "meals"), 0)
    ELSE [value |-> obj]

(***************************************************************************)
(* src/convex/http.ts: validateWorkoutPlan, validateDietPlan               *)
(***************************************************************************)
Digits == <<"0", "1", "2", "3", "4", "5", "6", "7", "8", "9">>
IsDigit(c) == \E d \in 1..Len(Digits) : Digits[d] = c
DigitValue(c) == (CHOOSE d \in 1..Len(Digits) : Digits[d] = c) - 1

RECURSIVE SkipSpaces(_)
SkipSpaces(cs) ==
    IF cs # <<>> /\ Head(cs) = " " THEN SkipSpaces(Tail(cs)) ELSE cs

\* the value of the digits cs starts with, after the digits read so far
RECURSIVE ReadDigits(_, _)
ReadDigits(cs, sofar) ==
    IF cs # <<>> /\ IsDigit(Head(cs))
    THEN ReadDigits(Tail(cs), 10 * sofar + DigitValue(Head(cs)))
    ELSE sofar

\* parseInt of a string of spaces, signs, decimal digits and letters a-c:
\* leading spaces skipped, one sign, then digits up to the first other
\* character; NaN when no digit is there
ParseChars(cs) ==
    LET t == SkipSpaces(cs)
        signed == t # <<>> /\ Head(t) \in {"+", "-"}
        u == IF signed THEN Tail(t) ELSE t
    IN  IF u = <<>> \/ ~IsDigit(Head(u)) THEN NaN
        ELSE IF signed /\ Head(t) = "-" THEN Num(0 - ReadDigits(u, 0))
        ELSE Num(ReadDigits(u, 0))

\* parseInt(v): v is turned into a string first
ParseInt(v) ==
    CASE v.kind = "string" -> IF "chars" \in DOMAIN v THEN ParseChars(v.chars) ELSE NaN
      [] v.kind = "number" -> v
      [] v.kind = "array" ->
            IF v.elems = <<>> THEN NaN
            ELSE IF v.elems[1].kind = "number" THEN v.elems[1]
            ELSE IF v.elems[1].kind = "string" /\ "chars" \in DOMAIN v.elems[1]
                 THEN ParseChars(v.elems[1].chars)
            ELSE NaN
      [] OTHER -> NaN

\* a || b
Or(a, b) == IF Truthy(a) THEN a ELSE b

\* reading a property of null or undefined, or calling .map on what is no
\* array, throws a TypeError
Threw == [threw |-> "TypeError"]
CanRead(v) == v.kind \notin {"null", "undefined"}

\* (variant for C11: the two fallbacks are exchanged)
NormalRoutineSwapped(routine) ==
    [name |-> Get(routine, "name"),
     sets |-> IF TypeOf(Get(routine, "sets")) = "number" THEN Get(routine, "sets")
              ELSE Or(ParseInt(Get(routine, "sets")), Num(10)),
     reps |-> IF TypeOf(Get(routine, "reps")) = "number" THEN Get(routine, "reps")
              ELSE Or(ParseInt(Get(routine, "reps")), Num(1))]

NormalRoutine(routine) ==
    [name |-> Get(routine, "name"),
     sets |-> IF TypeOf(Get(routine, "sets")) = "number" THEN Get(routine, "sets")
              ELSE Or(ParseInt(Get(routine, "sets")), Num(1)),
     reps |-> IF TypeOf(Get(routine, "reps")) = "number" THEN Get(routine, "reps")
              ELSE Or(ParseInt(Get(routine, "reps")), Num(10))]

NormalExercise(exercise) ==
    [day |-> Get(exercise, "day"),
     routines |-> [j \in 1..Len(Get(exercise, "routines").elems) |->
                       NormalRoutine(Get(exercise, "routines").elems[j])]]

validateWorkoutPlan(plan) ==
    IF \/ ~CanRead(plan)
       \/ ~IsArray(Get(plan, "exercises"))
       \/ \E i \in 1..Len(Get(plan, "exercises").elems) :
            LET ex == Get(plan, "exercises").elems[i]
            IN  \/ ~CanRead(ex)
                \/ ~IsArray(Get(ex, "routines"))
                \/ \E j \in 1..Len(Get(ex, "routines").elems) :
                       ~CanRead(Get(ex, "routines").elems[j])
    THEN Threw
    ELSE [schedule |-> Get(plan, "schedule"),
          exercises |-> [i \in 1..Len(Get(plan, "exercises").elems) |->
                            NormalExercise(Get(plan, "exercises").elems[i])]]

validateDietPlan(plan) ==
    IF \/ ~CanRead(plan)
       \/ ~IsArray(Get(plan, "meals"))
       \/ \E i \in 1..Len(Get(plan, "meals").elems) : ~CanRead(Get(plan, "meals").elems[i])
    THEN Threw
    ELSE [dailyCalories |-> Get(plan, "dailyCalories"),
          meals |-> [i \in 1..Len(Get(plan, "meals").elems) |->
                        [name |-> Get(Get(plan, "meals").elems[i], "name"),
                         foods |-> Get(Get(plan, "meals").elems[i], "foods")]]]

(***************************************************************************)
(* Workout plans the validator is tried on: NumEx exercises or fewer of    *)
(* NumRt routines or fewer, well-formed but for up to two places that hold *)
(* a value of the wrong kind or nothing, with or without extra fields.     *)
(***************************************************************************)
NumEx == 2
NumRt == 2

\* a place of the plan and the value put there: <<place, i, j, value>>
Defects(ne, nr) ==
    {<<"none", 0, 0, Undefined>>}
    \cup {<<"schedule", 0, 0, v>> : v \in {Undefined, Str("Mon"), Arr(<<Str("Mon"), Num(1)>>)}}
    \cup {<<"exercises", 0, 0, v>> : v \in {Undefined, Obj(<<>>)}}
    \cup {<<"exercise", i, 0, v>> : i \in 0..ne - 1, v \in {Null, Str("x")}}
    \cup {<<"day", i, 0, v>> : i \in 0..ne - 1, v \in {Undefined, Num(1)}}
    \cup {<<"routines", i, 0, v>> : i \in 0..ne - 1, v \in {Undefined, Str("x")}}
    \cup {<<"routine", i, j, v>> : i \in 0..ne - 1, j \in 0..nr - 1, v \in {Null, Num(3)}}
    \cup {<<"name", i, j, v>> : i \in 0..ne - 1, j \in 0..nr - 1, v \in {Undefined, Num(1)}}
    \cup {<<f, i, j, v>> : f \in {"sets", "reps"}, i \in 0..ne - 1, j \in 0..nr - 1,
                           v \in {Undefined, Chars(<<"3">>), Chars(<<"a", "b", "c">>), NaN}}

\* the value at a place: the defect's when one of ds is there, else good
Placed(ds, place, i, j, good) ==
    IF \E d \in ds : d[1] = place /\ d[2] = i /\ d[3] = j
    THEN (CHOOSE d \in ds : d[1] = place /\ d[2] = i /\ d[3] = j)[4]
    ELSE good

Notes(extra) == IF extra THEN Str("x") ELSE Undefined

RoutineValue(ds, extra, i, j) ==
    Placed(ds, "routine", i, j,
        Obj(WithField(WithField(WithField(WithField(<<>>,
            "name", Placed(ds, "name", i, j, Str("Squat"))),
            "sets", Placed(ds, "sets", i, j, Num(3))),
            "reps", Placed(ds, "reps", i, j, Num(10))),
            "notes", Notes(extra))))

ExerciseValue(ds, extra, nr, i) ==
    Placed(ds, "exercise", i, 0,
        Obj(WithField(WithField(WithField(<<>>,
            "day", Placed(ds, "day", i, 0, Str("Mon"))),
            "routines", Placed(ds, "routines", i, 0,
                Arr([j \in 1..nr |-> RoutineValue(ds, extra, i, j - 1)]))),
            "notes", Notes(extra))))

WorkoutValue(ds, extra, ne, nr) ==
    Obj(WithField(WithField(WithField(<<>>,
        "schedule", Placed(ds, "schedule", 0, 0, Arr(<<Str("Mon"), Str("Wed")>>))),
        "exercises", Placed(ds, "exercises", 0, 0,
            Arr([i \in 1..ne |-> ExerciseValue(ds, extra, nr, i - 1)]))),
        "notes", Notes(extra)))

NonObjects == {Undefined, Null, Str("x"), Num(1), Arr(<<>>)}

RestWorkout ==
    /\ wIn = Null
    /\ wOut = NotRun
    /\ wPlan = NotRun

StartWorkout ==
    /\ \/ \E ne \in 0..NumEx, nr \in 0..NumRt, extra \in BOOLEAN :
             \E d1 \in Defects(ne, nr), d2 \in Defects(ne, nr) :
                 wIn = WorkoutValue({d1, d2}, extra, ne, nr)
       \/ wIn \in NonObjects
    /\ wOut = NotRun
    /\ wPlan = NotRun

\* assertWorkoutShape(wIn)
AssertWorkout ==
    /\ wOut = NotRun
    /\ wOut' = assertWorkoutShape(wIn)
    /\ UNCHANGED <<wIn, wPlan, exceptWorkout>>

(***************************************************************************)
(* Workout plans the normalizer is tried on: the plans above with, in one  *)
(* more place, a sets or reps value of any kind a decoded JSON value or a  *)
(* number can be.                                                          *)
(***************************************************************************)
\* values of sets or reps: numbers, strings parseInt reads a number from
\* or not, and values of other kinds
Amounts ==
    {Undefined, Null, NaN, Num(0), Num(3), Num(0 - 2),
     Chars(<<"3">>), Chars(<<"a", "b", "c">>), Chars(<<"0">>), Chars(<<>>),
     Chars(<<" ", "1", "2">>), Chars(<<"-", "2">>), Chars(<<"3", "a", "b">>),
     Arr(<<>>), Arr(<<Num(4)>>), Obj(<<>>)}

Coercions(ne, nr) ==
    {<<f, i, j, v>> : f \in {"sets", "reps"}, i \in 0..ne - 1, j \in 0..nr - 1,
                      v \in Amounts}

StartNormal ==
    /\ \/ \E ne \in 0..NumEx, nr \in 0..NumRt, extra \in BOOLEAN :
             \E d1 \in Defects(ne, nr), d2 \in Coercions(ne, nr) :
                 wIn = WorkoutValue({d1, d2}, extra, ne, nr)
       \/ wIn \in NonObjects
    /\ wOut = NotRun
    /\ wPlan = NotRun

\* validateWorkoutPlan(wIn)
NormalizeWorkout ==
    /\ wPlan = NotRun
    /\ wPlan' = validateWorkoutPlan(wIn)
    /\ UNCHANGED <<wIn, wOut, exceptWorkout>>

(***************************************************************************)
(* src/convex/http.ts: POST /clerk-webhook                                 *)
(***************************************************************************)
MaxEmails == 2

\* request.headers.get(name): null when absent, else the header's value
HeaderValues == {"absent", "empty", "present"}

\* what reading and verifying the body comes to: request.json() throws,
\* Webhook.verify throws, or the verified event is returned
BodyKinds == {"malformed", "badSignature", "verified"}

EventTypes == {"user.created", "user.updated", "user.deleted", "session.created"}
Emails == <<"a@x", "b@x", "c@x">>
GivenNames == {<<>>, <<"Ann">>}

HookEvents ==
    [type : EventTypes, emails : 0..MaxEmails, first_name : GivenNames,
     last_name : GivenNames]

HookRequests ==
    [svix_id : HeaderValues, svix_signature : HeaderValues,
     svix_timestamp : HeaderValues, body : BodyKinds, evt : HookEvents]

\* !header
Missing(h) == h \in {"absent", "empty"}

\* (variant for C6: svix-signature is not among the headers checked)
HeadersMissingNoSignature(req) == Missing(req.svix_id) \/ Missing(req.svix_timestamp)

\* !svix_id || !svix_signature || !svix_timestamp
HeadersMissing(req) ==
    Missing(req.svix_id) \/ Missing(req.svix_signature) \/ Missing(req.svix_timestamp)

\* s.trim(), s a sequence of words and " "
RECURSIVE TrimLeft(_)
TrimLeft(s) == IF s # <<>> /\ Head(s) = " " THEN TrimLeft(Tail(s)) ELSE s
RECURSIVE TrimRight(_)
TrimRight(s) ==
    IF s # <<>> /\ s[Len(s)] = " " THEN TrimRight(SubSeq(s, 1, Len(s) - 1)) ELSE s
Trim(s) == TrimRight(TrimLeft(s))

\* `${first_name || ""} ${last_name || ""}`.trim()
DisplayName(evt) == Trim(evt.first_name \o <<" ">> \o evt.last_name)

\* evt.data.email_addresses
EmailAddresses(evt) == SubSeq(Emails, 1, evt.emails)

\* the arguments given to syncUser / updateUser
UserArgs(evt) ==
    [email |-> EmailAddresses(evt)[1], name |-> DisplayName(evt),
     image |-> "img", clerkId |-> "c1"]

HookRespond(status) == [hook EXCEPT !.pc = "responded", !.status = status]

NoRequest ==
    [svix_id |-> "absent", svix_signature |-> "absent", svix_timestamp |-> "absent",
     body |-> "malformed",
     evt |-> [type |-> "session.created", emails |-> 0,
              first_name |-> <<>>, last_name |-> <<>>]]

RestHook ==
    hook = [pc |-> "none", req |-> NoRequest, calls |-> <<>>, db |-> "none", status |-> 0]

StartHook ==
    \E req \in HookRequests :
        hook = [pc |-> "received", req |-> req, calls |-> <<>>, db |-> "none",
                status |-> 0]

\* lines 230-235: the three headers are read and checked
HookHeaders ==
    /\ hook.pc = "received"
    /\ hook' = IF HeadersMissing(hook.req) THEN HookRespond(400)
               ELSE [hook EXCEPT !.pc = "reading"]
    /\ UNCHANGED exceptHook

\* lines 238-281, up to the first runMutation: the body is read and
\* verified, and the event dispatched on its type
HookVerify ==
    /\ hook.pc = "reading"
    /\ hook' =
        IF hook.req.body # "verified" THEN HookRespond(400)
        ELSE IF hook.req.evt.type \in {"user.created", "user.updated"}
        THEN IF EmailAddresses(hook.req.evt) = <<>>
             THEN \* email_addresses[0].email_address: a TypeError no catch covers
                  [hook EXCEPT !.pc = "threw"]
             ELSE [hook EXCEPT
                      !.pc = "mutating",
                      !.calls = Append(@,
                          [op |-> IF hook.req.evt.type = "user.created"
                                  THEN "syncUser" ELSE "updateUser",
                           args |-> UserArgs(hook.req.evt)])]
        ELSE HookRespond(200)
    /\ UNCHANGED exceptHook

\* ctx.runMutation(api.users.syncUser / updateUser) returns or throws
HookMutationDone(ok) ==
    /\ hook.pc = "mutating"
    /\ hook' = IF ok THEN [HookRespond(200) EXCEPT !.db = "ok"]
               ELSE [HookRespond(500) EXCEPT !.db = "failed"]
    /\ UNCHANGED exceptHook

(***************************************************************************)
(* src/convex/http.ts: POST /vapi/generate-program                         *)
(***************************************************************************)
\* request.json() threw: the body is no JSON
Malformed == [kind |-> "malformed"]

GenBodies ==
    {Malformed, Null,
     Obj(GoodPayload("u1")), Obj(GoodPayload("u2")),
     Obj([node |-> Obj(GoodPayload("u1"))]),
     Obj(WithField(GoodPayload("u1"), "age", Undefined)),
     Obj(WithField(GoodPayload("u1"), "extra", Str("x"))),
     Obj(WithField(GoodPayload("u1"), "node", Obj(<<>>)))}

\* what an AI call comes to: generateContent throws, its text is no JSON, or
\* the text parses to a value
AIThrew == [kind |-> "threw"]
Unparsable == [kind |-> "unparsable"]
Pending == [kind |-> "pending"]

WorkoutOutcomes ==
    {AIThrew, Unparsable, Null,
     WorkoutValue({}, FALSE, 1, 1),
     WorkoutValue({}, TRUE, 2, 1),
     WorkoutValue({<<"reps", 0, 0, Chars(<<"a", "b", "c">>)>>}, FALSE, 1, 1),
     WorkoutValue({<<"schedule", 0, 0, Undefined>>}, FALSE, 1, 1)}

DietValue(calories, foods, extra) ==
    Obj(WithField(WithField(WithField(<<>>,
        "dailyCalories", calories),
        "meals", Arr(<<Obj(WithField(WithField(WithField(<<>>,
                        "name", Str("Breakfast")),
                        "foods", foods),
                        "notes", Notes(extra)))>>)),
        "notes", Notes(extra)))

DietOutcomes ==
    {AIThrew, Unparsable, Null,
     DietValue(Num(2000), Arr(<<Str("Oats")>>), FALSE),
     DietValue(Num(2000), Arr(<<Str("Oats")>>), TRUE),
     DietValue(Chars(<<"2", "0", "0", "0">>), Arr(<<Str("Oats")>>), FALSE),
     DietValue(Num(2000), Arr(<<Str("Oats"), Num(1)>>), FALSE)}

NoData == [planId |-> 0, workoutPlan |-> Null, dietPlan |-> Null]

\* new Response(JSON.stringify({success: false, error}), {status})
Failure(status, error) ==
    [status |-> status, success |-> FALSE, error |-> error, data |-> NoData]

\* new Response(JSON.stringify({success: true, data: {...}}), {status: 200})
Success(planId, workoutPlan, dietPlan) ==
    [status |-> 200, success |-> TRUE, error |-> <<>>,
     data |-> [planId |-> planId, workoutPlan |-> workoutPlan, dietPlan |-> dietPlan]]

\* (variant for C4: the request-shape error is answered with status 500)
PayloadErrorAs500(error) == Failure(500, error)

\* lines 298-303
PayloadErrorResponse(error) == Failure(400, error)

\* lines 505-514: the top-level catch
Unexpected(message) == Failure(500, message)

NoResponse == [status |-> 0, success |-> FALSE, error |-> <<>>, data |-> NoData]

RestGen ==
    gen = [pc |-> "none", body |-> Null, payload |-> Null,
           workout |-> Pending, diet |-> Pending,
           workoutPlan |-> Null, dietPlan |-> Null,
           aiCalls |-> 0, createCalls |-> 0, responses |-> 0,
           saved |-> "none", plans0 |-> <<>>, response |-> NoResponse]

GenRespond(response) ==
    [gen EXCEPT !.pc = "responded", !.response = response, !.responses = @ + 1]

\* the arguments of the handler's createPlan call (lines 472-478)
GenPlanArgs ==
    [userId |-> gen.payload.user_id.str,
     name |-> <<gen.payload.fitness_goal.str, " Plan - ", "today">>,
     isActive |-> TRUE]

\* a request arrives
GenRequest(body) ==
    /\ gen.pc \in {"none", "responded"}
    /\ Len(plans) < MaxPlans
    /\ gen' = [pc |-> "received", body |-> body, payload |-> Null,
               workout |-> Pending, diet |-> Pending,
               workoutPlan |-> Null, dietPlan |-> Null,
               aiCalls |-> 0, createCalls |-> 0, responses |-> 0,
               saved |-> "none", plans0 |-> plans, response |-> NoResponse]
    /\ UNCHANGED <<plans, exceptGen>>

\* lines 294-372: the body is read, unwrapped and validated, and the workout
\* prompt sent
GenValidate ==
    /\ gen.pc = "received"
    /\ gen' =
        IF gen.body = Malformed THEN GenRespond(Unexpected(<<"Unexpected token">>))
        ELSE IF "error" \in DOMAIN ValidateBody(gen.body)
        THEN GenRespond(PayloadErrorResponse(ValidateBody(gen.body).error))
        ELSE [gen EXCEPT !.pc = "workoutAI",
                         !.payload = ValidateBody(gen.body).payload,
                         !.aiCalls = @ + 1]
    /\ UNCHANGED <<plans, exceptGen>>

\* lines 372-445: the workout call ends; its output is parsed, validated and
\* normalised, and the diet prompt sent
GenWorkoutReturns(outcome) ==
    /\ gen.pc = "workoutAI"
    /\ gen' =
        LET g == [gen EXCEPT !.workout = outcome]
        IN  IF outcome \in {AIThrew, Unparsable}
            THEN [g EXCEPT !.pc = "responded", !.responses = @ + 1,
                     !.response = Failure(500,
                         <<"Failed to generate a valid workout plan from AI.">>)]
            ELSE IF "error" \in DOMAIN assertWorkoutShape(outcome)
            THEN [g EXCEPT !.pc = "responded", !.responses = @ + 1,
                     !.response = Failure(500,
                         <<"Invalid workout plan: ">> \o assertWorkoutShape(outcome).error)]
            ELSE IF validateWorkoutPlan(assertWorkoutShape(outcome).value) = Threw
            THEN [g EXCEPT !.pc = "responded", !.responses = @ + 1,
                     !.response = Unexpected(<<"TypeError">>)]
            ELSE [g EXCEPT !.pc = "dietAI", !.aiCalls = @ + 1,
                     !.workoutPlan = validateWorkoutPlan(assertWorkoutShape(outcome).value)]
    /\ UNCHANGED <<plans, exceptGen>>

\* lines 445-478: the diet call ends; its output is parsed, validated and
\* normalised, and createPlan invoked
GenDietReturns(outcome) ==
    /\ gen.pc = "dietAI"
    /\ gen' =
        LET g == [gen EXCEPT !.diet = outcome]
        IN  IF outcome \in {AIThrew, Unparsable}
            THEN [g EXCEPT !.pc = "responded", !.responses = @ + 1,
                     !.response = Failure(500,
                         <<"Failed to generate a valid diet plan from AI.">>)]
            ELSE IF "error" \in DOMAIN assertDietShape(outcome)
            THEN [g EXCEPT !.pc = "responded", !.responses = @ + 1,
                     !.response = Failure(500,
                         <<"Invalid diet plan: ">> \o assertDietShape(outcome).error)]
            ELSE IF validateDietPlan(assertDietShape(outcome).value) = Threw
            THEN [g EXCEPT !.pc = "responded", !.responses = @ + 1,
                     !.response = Unexpected(<<"TypeError">>)]
            ELSE [g EXCEPT !.pc = "saving", !.createCalls = @ + 1,
                     !.dietPlan = validateDietPlan(assertDietShape(outcome).value)]
    /\ UNCHANGED <<plans, exceptGen>>

\* lines 472-504: createPlan commits and returns the new _id, or throws with
\* nothing written
GenSaveReturns(ok) ==
    /\ gen.pc = "saving"
    /\ IF ok
       THEN /\ plans' = CreatePlanHandler(plans, GenPlanArgs).db
            /\ gen' = [GenRespond(Success(CreatePlanHandler(plans, GenPlanArgs).id,
                                          gen.workoutPlan, gen.dietPlan))
                          EXCEPT !.saved = "ok"]
       ELSE /\ plans' = plans
            /\ gen' = [GenRespond(Failure(500, <<"Failed to save plan to database.">>))
                          EXCEPT !.saved = "failed"]
    /\ UNCHANGED exceptGen

(***************************************************************************)
(* Specifications                                                          *)
(***************************************************************************)
InitStore ==
    /\ plans = <<>>
    /\ txn = [t \in Txns |-> Idle]
    /\ listed = NotListed

Init == InitStore /\ RestPayload /\ RestWorkout /\ RestHook /\ RestGen

Next ==
    \/ \E t \in Txns, args \in PlanArgs : Begin(t, args)
    \/ \E t \in Txns : Commit(t)
    \/ \E t \in Txns : Retry(t)

Spec == Init /\ [][Next]_vars

InitQuery == InitStore /\ RestPayload /\ RestWorkout /\ RestHook /\ RestGen

NextQuery ==
    \/ \E args \in PlanArgs : CreatePlan(args)
    \/ \E u \in Users : GetUserPlans(u)

SpecQuery == InitQuery /\ [][NextQuery]_vars

InitPayload == StartPayload /\ InitStore /\ RestWorkout /\ RestHook /\ RestGen

NextPayload ==
    \/ AssertPayload
    \/ ValidatePlain
    \/ ValidateWrapped

SpecPayload == InitPayload /\ [][NextPayload]_vars

InitWorkout == StartWorkout /\ InitStore /\ RestPayload /\ RestHook /\ RestGen

NextWorkout == AssertWorkout

SpecWorkout == InitWorkout /\ [][NextWorkout]_vars

InitNormal == StartNormal /\ InitStore /\ RestPayload /\ RestHook /\ RestGen

NextNormal == NormalizeWorkout

SpecNormal == InitNormal /\ [][NextNormal]_vars

InitHook == StartHook /\ InitStore /\ RestPayload /\ RestWorkout /\ RestGen

NextHook ==
    \/ HookHeaders
    \/ HookVerify
    \/ \E ok \in BOOLEAN : HookMutationDone(ok)

SpecHook == InitHook /\ [][NextHook]_vars

InitGen == InitStore /\ RestPayload /\ RestWorkout /\ RestHook /\ RestGen

NextGen ==
    \/ \E body \in GenBodies : GenRequest(body)
    \/ GenValidate
    \/ \E outcome \in WorkoutOutcomes : GenWorkoutReturns(outcome)
    \/ \E outcome \in DietOutcomes : GenDietReturns(outcome)
    \/ \E ok \in BOOLEAN : GenSaveReturns(ok)

SpecGen == InitGen /\ [][NextGen]_vars

(***************************************************************************)
(* Claims about the plan store                                             *)
(***************************************************************************)
ActiveOf(db, u) == {i \in 1..Len(db) : db[i].userId = u /\ db[i].isActive}

\* C1: in every committed state of the plans table each user has at most
\* one plan with isActive = true, whatever createPlan calls ran and however
\* their transactions overlapped.
C1_AtMostOneActive == \A u \in Users : Cardinality(ActiveOf(plans, u)) <= 1

\* C1 witness: a call for an active plan is in flight whose snapshot showed no
\* active plan of its user, while another call has since committed an active
\* plan for that user (both observed zero active plans).
C1_Witness ==
    \E t \in Txns :
        /\ txn[t].pc = "running"
        /\ txn[t].args.isActive
        /\ ActiveOf(txn[t].snap, txn[t].args.userId) = {}
        /\ ActiveOf(plans, txn[t].args.userId) # {}
        /\ \E s \in Txns \ {t} : /\ txn[s].ret > 0
                                  /\ txn[s].args.userId = txn[t].args.userId
                                  /\ txn[s].ret > Len(txn[t].snap)

\* C2: when createPlan(userId, ..., isActive = true) returns, the plan it
\* inserted is the only active plan of that user and every plan of that user
\* that was active before is now inactive.
C2_NewPlanOnlyActive ==
    [][\A t \in Txns :
          (txn[t].pc = "running" /\ txn'[t].pc = "idle" /\ txn[t].args.isActive) =>
              LET u == txn[t].args.userId
                  id == txn'[t].ret
              IN  /\ id = Len(plans) + 1
                  /\ Len(plans') = id
                  /\ plans'[id].userId = u
                  /\ ActiveOf(plans', u) = {id}
                  /\ \A i \in ActiveOf(plans, u) : plans'[i].isActive = FALSE]_vars

\* C2 witness: two calls in sequence for one user have returned; the first
\* plan is inactive and the second, just returned, is the active one.
C2_Witness ==
    \E t \in Txns, i \in 1..Len(plans) :
        /\ txn[t].pc = "idle" /\ txn[t].ret > i /\ txn[t].args.isActive
        /\ plans[i].userId = txn[t].args.userId
        /\ plans[i].isActive = FALSE
        /\ plans[txn[t].ret].isActive

\* the createPlan call t returns in this step
Returning(t) == txn[t].pc = "running" /\ txn'[t].pc = "idle"

\* C12: createPlan removes no plan and changes no field of a stored plan
\* but isActive, from true to false, on plans of the calling userId: every
\* plan stored before a step is stored after it under the same _id, plans of
\* other users are unchanged, and no isActive goes from false to true.
C12_OnlyDeactivates ==
    [][/\ Len(plans') >= Len(plans)
       /\ \A i \in 1..Len(plans) :
              \/ plans'[i] = plans[i]
              \/ /\ plans[i].isActive = TRUE
                 /\ plans'[i] = [plans[i] EXCEPT !.isActive = FALSE]
                 /\ \E t \in Txns :
                        Returning(t) /\ txn[t].args.userId = plans[i].userId
       /\ \A i \in 1..Len(plans) : plans'[i].isActive => plans[i].isActive
       /\ \A t \in Txns :
              Returning(t) =>
                  \A i \in 1..Len(plans) :
                      plans[i].userId # txn[t].args.userId => plans'[i] = plans[i]]_vars

\* C12 witness: a call still running read plan i as active; another call of
\* that plan's user has since returned, and plan i is still stored, inactive
\* and otherwise as it was, before the plan that call inserted.
C12_Witness ==
    \E t \in Txns, s \in Txns, i \in 1..Len(plans) :
        /\ s # t
        /\ txn[t].pc = "running"
        /\ i <= Len(txn[t].snap)
        /\ txn[t].snap[i].isActive = TRUE
        /\ plans[i] = [txn[t].snap[i] EXCEPT !.isActive = FALSE]
        /\ txn[s].pc = "idle" /\ txn[s].ret > Len(txn[t].snap)
        /\ txn[s].args.userId = plans[i].userId
        /\ txn[t].args.userId # plans[i].userId

\* C8: getUserPlans(userId) returns exactly the stored plans of that user,
\* each once, a plan inserted later strictly before one inserted earlier, and
\* the query changes no stored plan.
C8_NewestFirst ==
    [][listed'.userId # "none" =>
          LET u == listed'.userId
              r == listed'.result
          IN  /\ plans' = plans
              /\ \A k \in 1..Len(r) :
                    /\ r[k]._id \in 1..Len(plans)
                    /\ r[k] = plans[r[k]._id]
                    /\ r[k].userId = u
              /\ \A i \in 1..Len(plans) :
                    plans[i].userId = u => \E k \in 1..Len(r) : r[k]._id = i
              /\ \A k, l \in 1..Len(r) : k < l => r[k]._id > r[l]._id]_vars

\* C8 witness: the query has answered after three insertions for its user.
C8_Witness ==
    /\ listed.userId \in Users
    /\ Len(listed.result) >= 3
    /\ listed.result[1]._id = 3

(***************************************************************************)
(* Claims about the request validator                                      *)
(***************************************************************************)
FieldOrder ==
    <<"user_id", "age", "height", "weight", "injuries", "workout_days",
      "fitness_goal", "fitness_level", "dietary_restrictions">>

IsStringValue(v) == v.kind = "string"
IsNumberValue(v) == v.kind \in {"number", "NaN"}
IsStringListValue(v) ==
    v.kind = "array" /\ \A k \in 1..Len(v.elems) : v.elems[k].kind = "string"

WellTyped(v, f) ==
    IF f = "age" THEN IsNumberValue(v)
    ELSE IF f \in {"workout_days", "dietary_restrictions"} THEN IsStringListValue(v)
    ELSE IsStringValue(v)

IsObjectInput(v) == v.kind \in {"object", "array"}

FieldValue(v, f) ==
    IF v.kind = "object" /\ f \in DOMAIN v.fields THEN v.fields[f] ELSE Undefined

Failing(v) == {k \in 1..Len(FieldOrder) : ~WellTyped(FieldValue(v, FieldOrder[k]), FieldOrder[k])}

FirstFailing(v) == CHOOSE k \in Failing(v) : \A j \in Failing(v) : k <= j

NamedFields(err) == {err[i] : i \in 1..Len(err)} \cap PayloadFields

\* C9: assertPayloadShape returns either a payload or an error, never both
\* and never neither; for an object input the error names the first field,
\* in the order user_id, age, height, weight, injuries, workout_days,
\* fitness_goal, fitness_level, dietary_restrictions, that is missing or
\* ill-typed, and a payload of exactly those nine fields is returned only
\* when all nine pass.
C9_FirstFailingField ==
    pOut.direct # NotRun =>
        LET r == pOut.direct
        IN  /\ DOMAIN r \in {{"error"}, {"payload"}}
            /\ ~IsObjectInput(pIn) => DOMAIN r = {"error"} /\ NamedFields(r.error) = {}
            /\ (IsObjectInput(pIn) /\ Failing(pIn) # {}) =>
                   /\ DOMAIN r = {"error"}
                   /\ NamedFields(r.error) = {FieldOrder[FirstFailing(pIn)]}
            /\ (IsObjectInput(pIn) /\ Failing(pIn) = {}) =>
                   /\ DOMAIN r = {"payload"}
                   /\ DOMAIN r.payload = PayloadFields
                   /\ \A f \in PayloadFields : r.payload[f] = pIn.fields[f]

\* C9 witness: an object with age absent and a later field ill-typed too has
\* been validated, and the error names age.
C9_Witness ==
    /\ pOut.direct # NotRun
    /\ pIn.kind = "object"
    /\ "age" \notin DOMAIN pIn.fields
    /\ Cardinality(Failing(pIn)) = 2
    /\ FirstFailing(pIn) = 2
    /\ "age" \in NamedFields(pOut.direct.error)

\* C5: for every payload P that passes request shape validation, payloads
\* with extraneous fields included, the body {node: P} is validated to the
\* same result as the body P.
C5_WrappedLikePlain ==
    (/\ pOut.direct # NotRun /\ pOut.plain # NotRun /\ pOut.wrapped # NotRun
     /\ "payload" \in DOMAIN pOut.direct)
        => pOut.wrapped = pOut.plain

\* C5, where it does hold: P carries no field "node" holding an object or an
\* array.
C5_WithoutNodeObject ==
    (/\ pOut.direct # NotRun /\ pOut.plain # NotRun /\ pOut.wrapped # NotRun
     /\ "payload" \in DOMAIN pOut.direct
     /\ ~("node" \in DOMAIN pIn.fields /\ pIn.fields["node"].kind \in {"object", "array"}))
        => pOut.wrapped = pOut.plain /\ pOut.plain = pOut.direct

(***************************************************************************)
(* Claims about the workout validator                                      *)
(***************************************************************************)
IsGoodNumber(v) == v.kind = "number"

ElemsOf(v, f) == FieldValue(v, f).elems

RoutineOK(r) ==
    /\ IsObjectInput(r)
    /\ IsStringValue(FieldValue(r, "name"))
    /\ IsGoodNumber(FieldValue(r, "sets"))
    /\ IsGoodNumber(FieldValue(r, "reps"))

ExerciseOK(e) ==
    /\ IsObjectInput(e)
    /\ IsStringValue(FieldValue(e, "day"))
    /\ FieldValue(e, "routines").kind = "array"

TopOK(w) ==
    /\ IsObjectInput(w)
    /\ IsStringListValue(FieldValue(w, "schedule"))
    /\ FieldValue(w, "exercises").kind = "array"

BadRoutines(e) == {j \in 1..Len(ElemsOf(e, "routines")) : ~RoutineOK(ElemsOf(e, "routines")[j])}

BadExercises(w) ==
    {i \in 1..Len(ElemsOf(w, "exercises")) :
        \/ ~ExerciseOK(ElemsOf(w, "exercises")[i])
        \/ BadRoutines(ElemsOf(w, "exercises")[i]) # {}}

WellFormedWorkout(w) == TopOK(w) /\ BadExercises(w) = {}

Least(S) == CHOOSE k \in S : \A l \in S : k <= l

RoutineFault(r) ==
    IF ~IsObjectInput(r) THEN <<>>
    ELSE IF ~IsStringValue(FieldValue(r, "name")) THEN <<".name">>
    ELSE IF ~IsGoodNumber(FieldValue(r, "sets")) THEN <<".sets">>
    ELSE <<".reps">>

ExerciseFault(e) ==
    IF ~IsObjectInput(e) THEN <<>>
    ELSE IF ~IsStringValue(FieldValue(e, "day")) THEN <<".day">>
    ELSE IF FieldValue(e, "routines").kind # "array" THEN <<".routines">>
    ELSE <<".routines[", ToString(Least(BadRoutines(e)) - 1), "]">>
         \o RoutineFault(ElemsOf(e, "routines")[Least(BadRoutines(e))])

\* the path of the first violation: schedule, then exercises, then the
\* exercises in index order, each before its routines in index order
FirstViolation(w) ==
    IF ~IsStringListValue(FieldValue(w, "schedule")) THEN <<"schedule">>
    ELSE IF FieldValue(w, "exercises").kind # "array" THEN <<"exercises">>
    ELSE <<"exercises[", ToString(Least(BadExercises(w)) - 1), "]">>
         \o ExerciseFault(ElemsOf(w, "exercises")[Least(BadExercises(w))])

Contains(seq, sub) ==
    \E k \in 0..Len(seq) - Len(sub) : SubSeq(seq, k + 1, k + Len(sub)) = sub

\* the only defect of w is a non-numeric reps at exercises[i-1].routines[j-1]
OnlyRepsDefect(w, i, j) ==
    /\ TopOK(w)
    /\ i \in 1..Len(ElemsOf(w, "exercises"))
    /\ \A k \in 1..Len(ElemsOf(w, "exercises")) : ExerciseOK(ElemsOf(w, "exercises")[k])
    /\ j \in 1..Len(ElemsOf(ElemsOf(w, "exercises")[i], "routines"))
    /\ BadExercises(w) = {i}
    /\ BadRoutines(ElemsOf(w, "exercises")[i]) = {j}
    /\ RoutineFault(ElemsOf(ElemsOf(w, "exercises")[i], "routines")[j]) = <<".reps">>

\* C10: assertWorkoutShape accepts a workout object only if schedule is a
\* string list and every routine of every exercise has a string name and
\* numeric, non-NaN sets and reps; when the only defect is a non-numeric reps
\* at exercises[i].routines[j] the error contains exactly that path; and in
\* general the error names the first violation in exercise-then-routine
\* index order.
C10_WorkoutErrorPath ==
    wOut # NotRun =>
        /\ DOMAIN wOut \in {{"error"}, {"value"}}
        /\ "value" \in DOMAIN wOut <=> (IsObjectInput(wIn) /\ WellFormedWorkout(wIn))
        /\ "value" \in DOMAIN wOut => wOut.value = wIn
        /\ (IsObjectInput(wIn) /\ ~WellFormedWorkout(wIn)) =>
               wOut.error = <<"Workout plan '">> \o FirstViolation(wIn)
                            \o <<wOut.error[Len(wOut.error)]>>
        /\ \A i \in 1..NumEx, j \in 1..NumRt :
               (IsObjectInput(wIn) /\ OnlyRepsDefect(wIn, i, j)) =>
                   Contains(wOut.error,
                            <<"exercises[", ToString(i - 1), "]",
                              ".routines[", ToString(j - 1), "]", ".reps">>)

\* C10 witness: a plan whose only defect is a non-numeric reps at
\* exercises[1].routines[0] has been refused.
C10_Witness ==
    /\ wOut # NotRun
    /\ IsObjectInput(wIn)
    /\ OnlyRepsDefect(wIn, 2, 1)
    /\ "error" \in DOMAIN wOut

(***************************************************************************)
(* Claims about the webhook handler                                        *)
(***************************************************************************)
AllHeadersPresent ==
    /\ hook.req.svix_id = "present"
    /\ hook.req.svix_signature = "present"
    /\ hook.req.svix_timestamp = "present"

HookOps == {hook.calls[k].op : k \in 1..Len(hook.calls)}

\* C6: the handler invokes syncUser only for a request with all three svix
\* headers whose verification succeeded and whose event type is user.created,
\* updateUser only under the same conditions with type user.updated; a
\* request missing a header or failing verification gets 400 and invokes no
\* database operation, and a verified event of any other type invokes none.
C6_OnlyVerifiedEventsReachDb ==
    /\ Len(hook.calls) <= 1
    /\ HookOps \subseteq {"syncUser", "updateUser"}
    /\ "syncUser" \in HookOps =>
           AllHeadersPresent /\ hook.req.body = "verified"
           /\ hook.req.evt.type = "user.created"
    /\ "updateUser" \in HookOps =>
           AllHeadersPresent /\ hook.req.body = "verified"
           /\ hook.req.evt.type = "user.updated"
    /\ (hook.pc = "responded" /\ (~AllHeadersPresent \/ hook.req.body # "verified")) =>
           hook.status = 400 /\ hook.calls = <<>>
    /\ hook.req.evt.type \notin {"user.created", "user.updated"} => hook.calls = <<>>

\* C6 witness: a verified user.created event has been answered after
\* syncUser was invoked for it.
C6_Witness ==
    /\ hook.pc = "responded"
    /\ hook.status = 200
    /\ HookOps = {"syncUser"}
    /\ hook.calls[1].args.name = <<"Ann", " ", "Ann">>

\* C7: every request ends with a response of status 400, 500 or 200, for
\* every header combination and every verified event, one with an empty
\* email_addresses list included: 400 for missing headers or a bad
\* signature, 500 when syncUser or updateUser fails, 200 in every other case.
C7_AlwaysAnswered ==
    /\ hook.pc \in {"received", "reading", "mutating", "responded"}
    /\ hook.pc = "responded" =>
           hook.status =
               IF ~AllHeadersPresent \/ hook.req.body # "verified" THEN 400
               ELSE IF hook.db = "failed" THEN 500
               ELSE 200

(***************************************************************************)
(* Claims about the generation handler                                     *)
(***************************************************************************)
IsJsonValue(v) == v.kind \in {"null", "string", "number", "array", "object"}

\* the body is JSON and, unwrapped, has all nine fields well-typed
RequestValid(body) ==
    /\ body # Malformed
    /\ IsObjectInput(OrNull(unwrapNode(body)))
    /\ Failing(OrNull(unwrapNode(body))) = {}

MealOK(meal) ==
    /\ IsObjectInput(meal)
    /\ IsStringValue(FieldValue(meal, "name"))
    /\ IsStringListValue(FieldValue(meal, "foods"))

WellFormedDiet(d) ==
    /\ IsObjectInput(d)
    /\ IsGoodNumber(FieldValue(d, "dailyCalories"))
    /\ FieldValue(d, "meals").kind = "array"
    /\ \A i \in 1..Len(ElemsOf(d, "meals")) : MealOK(ElemsOf(d, "meals")[i])

\* the AI call has returned a value that passes shape validation
WorkoutPassed == IsJsonValue(gen.workout) /\ IsObjectInput(gen.workout)
                 /\ WellFormedWorkout(gen.workout)
DietPassed == IsJsonValue(gen.diet) /\ IsObjectInput(gen.diet) /\ WellFormedDiet(gen.diet)

\* the request has stopped before persistence
FailedBeforeSave ==
    /\ gen.pc = "responded"
    /\ \/ ~RequestValid(gen.body)
       \/ ~WorkoutPassed
       \/ ~DietPassed

\* C3: createPlan is invoked at most once per request, and only after both
\* AI invocations have completed and both outputs have passed shape
\* validation; a request that fails at request validation, at either AI call
\* or JSON parse, or at either output validation never invokes createPlan,
\* and no plan is written for it.
C3_NoPartialWrites ==
    /\ gen.createCalls <= 1
    /\ gen.createCalls = 1 =>
           /\ RequestValid(gen.body)
           /\ gen.aiCalls = 2
           /\ WorkoutPassed
           /\ DietPassed
    /\ FailedBeforeSave => gen.createCalls = 0
    /\ gen.createCalls = 0 => plans = gen.plans0
    /\ Len(plans) <= Len(gen.plans0) + 1

\* C3 witness: a request whose workout output passed but whose diet output
\* did not has been answered, with plans of earlier requests in the table.
C3_Witness ==
    /\ gen.pc = "responded"
    /\ RequestValid(gen.body)
    /\ WorkoutPassed
    /\ IsJsonValue(gen.diet) /\ ~DietPassed
    /\ gen.createCalls = 0
    /\ gen.plans0 # <<>>

ExpectedStatus ==
    IF gen.body = Malformed THEN 500
    ELSE IF ~RequestValid(gen.body) THEN 400
    ELSE IF ~WorkoutPassed \/ ~DietPassed \/ gen.saved # "ok" THEN 500
    ELSE 200

\* C4: every request ends with exactly one response, its status set by the
\* stage that stopped it: 400 with {success:false, error} for a bad request
\* shape, 500 with {success:false, error} when an AI call or parse, an output
\* validation, the persistence step or an uncaught exception fails, and 200
\* with {success:true, data:{planId, workoutPlan, dietPlan}} only when
\* createPlan has succeeded, planId being the identifier it returned.
C4_StatusByStage ==
    /\ gen.responses = IF gen.pc = "responded" THEN 1 ELSE 0
    /\ gen.pc \in {"received", "workoutAI", "dietAI", "saving"} =>
           ENABLED (\/ GenValidate
                    \/ \E o \in WorkoutOutcomes : GenWorkoutReturns(o)
                    \/ \E o \in DietOutcomes : GenDietReturns(o)
                    \/ \E ok \in BOOLEAN : GenSaveReturns(ok))
    /\ gen.pc = "responded" =>
           LET r == gen.response
           IN  /\ r.status = ExpectedStatus
               /\ r.status \in {400, 500} =>
                      r.success = FALSE /\ r.error # <<>> /\ r.data = NoData
               /\ r.status = 200 =>
                      /\ r.success = TRUE
                      /\ gen.createCalls = 1 /\ gen.saved = "ok"
                      /\ Len(plans) = Len(gen.plans0) + 1
                      /\ r.data.planId = plans[Len(plans)]._id
                      /\ plans[Len(plans)].userId = gen.payload.user_id.str
                      /\ r.data.workoutPlan = gen.workoutPlan
                      /\ r.data.dietPlan = gen.dietPlan

\* C4 witness: a request has been answered 200 with the _id of the plan
\* createPlan inserted for it, after an earlier request was saved too.
C4_Witness ==
    /\ gen.pc = "responded"
    /\ gen.response.status = 200
    /\ gen.response.data.planId = 2
    /\ Len(plans) = 2

(***************************************************************************)
(* validateWorkoutPlan                                                     *)
(***************************************************************************)
\* validateWorkoutPlan(wIn) has returned a plan
Normalized == wPlan # NotRun /\ wPlan # Threw

ExercisesIn == Get(wIn, "exercises").elems
RoutinesIn(i) == Get(ExercisesIn[i], "routines").elems

\* what a sets or reps value v is to become: v itself when typeof v is
\* "number", else its integer parse when that is a number other than 0, else
\* the fallback
Coerced(v, fallback) ==
    IF TypeOf(v) = "number" THEN v
    ELSE IF ParseInt(v).kind = "number" /\ ParseInt(v).num # 0 THEN ParseInt(v)
    ELSE Num(fallback)

\* C11: validateWorkoutPlan keeps a sets or reps whose typeof is "number"
\* unchanged, replaces any other value by its integer parse when that parse
\* is a number other than 0, and otherwise puts the fallback 1 for sets and
\* 10 for reps (sets "3" gives 3, sets "abc" gives 1, reps "abc" gives 10);
\* schedule, day and name pass through unchanged, and the result has the
\* fields schedule, exercises, day, routines, name, sets, reps and no other.
C11_NormalizedAmounts ==
    Normalized =>
        /\ DOMAIN wPlan = {"schedule", "exercises"}
        /\ wPlan.schedule = Get(wIn, "schedule")
        /\ Len(wPlan.exercises) = Len(ExercisesIn)
        /\ \A i \in 1..Len(ExercisesIn) :
               LET ex == wPlan.exercises[i]
               IN  /\ DOMAIN ex = {"day", "routines"}
                   /\ ex.day = Get(ExercisesIn[i], "day")
                   /\ Len(ex.routines) = Len(RoutinesIn(i))
                   /\ \A j \in 1..Len(RoutinesIn(i)) :
                          LET in == RoutinesIn(i)[j]
                              out == ex.routines[j]
                          IN  /\ DOMAIN out = {"name", "sets", "reps"}
                              /\ out.name = Get(in, "name")
                              /\ out.sets = Coerced(Get(in, "sets"), 1)
                              /\ out.reps = Coerced(Get(in, "reps"), 10)
                              /\ Get(in, "sets") = Chars(<<"3">>) => out.sets = Num(3)
                              /\ Get(in, "sets") = Chars(<<"a", "b", "c">>) => out.sets = Num(1)
                              /\ Get(in, "reps") = Chars(<<"3">>) => out.reps = Num(3)
                              /\ Get(in, "reps") = Chars(<<"a", "b", "c">>) => out.reps = Num(10)

\* C11 witness: a plan with extra fields has been normalized, in which one
\* routine's sets "abc" became 1 and its reps "3" became 3, next to a
\* routine whose numbers were kept.
C11_Witness ==
    /\ Normalized
    /\ HasField(wIn, "notes")
    /\ \E i \in 1..Len(ExercisesIn) :
           /\ Len(RoutinesIn(i)) = NumRt
           /\ \E j, k \in 1..NumRt :
                  /\ Get(RoutinesIn(i)[j], "sets") = Chars(<<"a", "b", "c">>)
                  /\ Get(RoutinesIn(i)[j], "reps") = Chars(<<"3">>)
                  /\ wPlan.exercises[i].routines[j].sets = Num(1)
                  /\ wPlan.exercises[i].routines[j].reps = Num(3)
                  /\ TypeOf(Get(RoutinesIn(i)[k], "sets")) = "number"
                  /\ wPlan.exercises[i].routines[k].sets = Get(RoutinesIn(i)[k], "sets")

====
